---- MODULE Spec2Model ----
(***************************************************************************)
(* Marsaglia universal generator (unirand.rs, duplicated in main.rs) and   *)
(* the data-parallel frame loop of main.rs.                                *)
(*                                                                         *)
(* f32 values are carried as integers in units of 2^-24: start builds each *)
(* slot from 24 bits of weight 2^-1 .. 2^-24, the correction constants are *)
(* n / 16777216, and every sum or difference generate forms has magnitude  *)
(* at most 1, so all of them are multiples of 2^-24 that f32 (24 bit       *)
(* significand) represents exactly.                                        *)
(***************************************************************************)
EXTENDS Integers, Sequences, FiniteSets, TLC

\* ------------------------------------------------------------ constants
LEN_U == 98
ONE == 16777216
MAX_SEED == 900000000
THREAD_SEED == 12345
\* time_step = 0.05, and the x/100, y/100 of the phase, in hundredths
TIME_STEP == 5
\* let terms = 100 in main
TERMS == 100

\* ------------------------------------------------------------ bounds
\* generate calls on one generator since its construction or last start
MaxDraws == 100
\* generate calls per generator when two generators run side by side
MaxPairDraws == 6
\* successful initialise calls on one generator
MaxInits == 2
\* seeds sampled across [0, MAX_SEED] where only the decomposition is run
SeedSamples == 150
\* the image is one row of ModelWidth pixels (the program's is 1024 x 768)
ModelWidth == 2
\* worker threads of the pool
NWorkers == 2
\* frames the main loop runs before the window closes
MaxFrames == 2
\* resolution of the normalised value: it is carried in units of 1 / NormDen
NormDen == 1024
\* crooks_fluctuation_theorem is called with terms in 0..MaxTerms (and with
\* the program's 100)
MaxTerms == 4

\* seeds offered to initialise where draws follow: the ends of the valid
\* range, the seed the program uses, seeds around the 169 and 30082
\* boundaries of the decomposition, and 5324513, whose sub-seeds are the
\* largest j, k and l (178, 178, 168)
InRangeSeeds == {0, 169, 30081, 30082, THREAD_SEED, 5324513, MAX_SEED}
\* seeds outside the range on both sides, down and up to the i32 limits
BadSeeds == {0 - 2147483647 - 1, -1, MAX_SEED + 1, 2147483647}
\* seeds spread evenly over the valid range, and the first seeds beyond it
SampleSeeds ==
    {(MAX_SEED \div SeedSamples) * n + n : n \in 0..SeedSamples} \cup InRangeSeeds
PairSeeds == {0, THREAD_SEED}

Gens == {1, 2}
Workers == 1..NWorkers
NPixels == ModelWidth
Pixels == 1..NPixels
\* "no seed" and "no value": outside [0, MAX_SEED] and outside [0, ONE)
NoSeed == 0 - 1
NoValue == 0 - 1

VARIABLES
    gen,        \* gen[g]: the MarsagliaUniRng held by caller-owned generator g
    seeded,     \* seeded[g]: seed of g's last successful initialise, or NoSeed
    inits,      \* inits[g]: successful initialise calls on g
    draws,      \* draws[g]: generate calls on g since construction / last start
    out,        \* out[g]: value returned by g's last generate since then
    last,       \* the last call made and how it ended
    panicked,   \* the calling thread has panicked
    tls,        \* tls[k]: the thread-local RNG slot k: [alive, rng]
    time,       \* main's time, in hundredths
    frame,      \* iterations of the main loop completed
    image,      \* image[q]: the Rgb of pixel q in this frame's ImageBuffer
    next,       \* pixels the bridged iterator has handed out in this frame
    task,       \* task[w]: where worker w is in the pixel closure
    owner,      \* owner[q]: <<w, n>>: q was the n-th pixel w took in this frame
    taken,      \* taken[w]: pixels w has taken in this frame
    drawn       \* drawn[w]: generate calls w has made since its thread began

genVars == <<gen, seeded, inits, draws, out, last>>
frameVars == <<tls, time, frame, image, next, task, owner, taken, drawn>>
vars == <<gen, seeded, inits, draws, out, last, panicked,
          tls, time, frame, image, next, task, owner, taken, drawn>>

\* ------------------------------------------------------------ i32 helpers
\* Rust's / and % on i32 truncate toward zero
\* (b > 0 at every use)
Div(a, b) == IF a >= 0 THEN a \div b ELSE (a + (b - 1)) \div b
Rem(a, b) == a - b * Div(a, b)

\* ------------------------------------------------------------ MarsagliaUniRng
New ==
    [recent_values      |-> [x \in 0..(LEN_U - 1) |-> 0],
     correction         |-> 0,
     correction_delta   |-> 0,
     correction_modulus |-> 0,
     current_index      |-> 0,
     second_index       |-> 0]

\* (mutant) the cursor wraps to the array length instead of its last index
StepIndexWrapsToLen(idx) == IF idx = 0 THEN LEN_U ELSE idx - 1

\* the cursor step of generate: 0 wraps to 97, anything else decrements
StepIndex(idx) == IF idx = 0 THEN 97 ELSE idx - 1

\* (mutant) the value is returned without the final wrap into [0,1)
OutputNoWrap(new_value, correction) == new_value - correction

\* the final wrap of generate: new_value -= correction; if < 0 then += 1.0
Output(new_value, correction) ==
    LET v == new_value - correction
    IN  IF v < 0 THEN v + ONE ELSE v

\* indexing recent_values panics when the index is not below LEN_U
IndexOk(self) ==
    /\ self.current_index \in 0..(LEN_U - 1)
    /\ self.second_index \in 0..(LEN_U - 1)

\* (mutant) the difference of the two slots is stored without the wrap
GenerateNoWrap(self) ==
    IF ~IndexOk(self)
    THEN [ok |-> FALSE, self |-> self, ret |-> NoValue]
    ELSE
    LET nv == self.recent_values[self.current_index]
                - self.recent_values[self.second_index]
        c1 == self.correction - self.correction_delta
        c2 == IF c1 < 0 THEN c1 + self.correction_modulus ELSE c1
    IN  [ok   |-> TRUE,
         self |-> [self EXCEPT
                     !.recent_values[self.current_index] = nv,
                     !.current_index = StepIndex(self.current_index),
                     !.second_index  = StepIndex(self.second_index),
                     !.correction    = c2],
         ret  |-> Output(IF nv < 0 THEN nv + ONE ELSE nv, c2)]

\* (mutant) the new value is stored at the second cursor
GenerateWritesSecond(self) ==
    IF ~IndexOk(self)
    THEN [ok |-> FALSE, self |-> self, ret |-> NoValue]
    ELSE
    LET d  == self.recent_values[self.current_index]
                - self.recent_values[self.second_index]
        nv == IF d < 0 THEN d + ONE ELSE d
        c1 == self.correction - self.correction_delta
        c2 == IF c1 < 0 THEN c1 + self.correction_modulus ELSE c1
    IN  [ok   |-> TRUE,
         self |-> [self EXCEPT
                     !.recent_values[self.second_index] = nv,
                     !.current_index = StepIndex(self.current_index),
                     !.second_index  = StepIndex(self.second_index),
                     !.correction    = c2],
         ret  |-> Output(nv, c2)]

\* generate: [ok, self (the state after), ret (the value returned)]
Generate(self) ==
    IF ~IndexOk(self)
    THEN [ok |-> FALSE, self |-> self, ret |-> NoValue]
    ELSE
    LET d  == self.recent_values[self.current_index]
                - self.recent_values[self.second_index]
        nv == IF d < 0 THEN d + ONE ELSE d
        c1 == self.correction - self.correction_delta
        c2 == IF c1 < 0 THEN c1 + self.correction_modulus ELSE c1
    IN  [ok   |-> TRUE,
         self |-> [self EXCEPT
                     !.recent_values[self.current_index] = nv,
                     !.current_index = StepIndex(self.current_index),
                     !.second_index  = StepIndex(self.second_index),
                     !.correction    = c2],
         ret  |-> Output(nv, c2)]

\* (mutant) l is reduced modulo 170
RoundLMod170(i, j, k, l) ==
    LET ij  == i * j
        ijk == Rem(ij, 179) * k
        m   == Rem(ijk, 179)
        l53 == 53 * l + 1
        l2  == Rem(l53, 170)
    IN  [i |-> j, j |-> k, k |-> m, l |-> l2,
         ij |-> ij, ijk |-> ijk, l53 |-> l53, lm |-> l2 * m]

\* one inner round of start: the running integers after it (k is m) and the
\* products formed on the way
Round(i, j, k, l) ==
    LET ij  == i * j
        ijk == Rem(ij, 179) * k
        m   == Rem(ijk, 179)
        l53 == 53 * l + 1
        l2  == Rem(l53, 169)
    IN  [i |-> j, j |-> k, k |-> m, l |-> l2,
         ij |-> ij, ijk |-> ijk, l53 |-> l53, lm |-> l2 * m]

\* the 24 inner rounds of start for one slot: the running integers and s
RECURSIVE Rounds(_, _, _, _, _, _, _)
Rounds(i, j, k, l, s, t, jj) ==
    IF jj > 24 THEN [i |-> i, j |-> j, k |-> k, l |-> l, s |-> s]
    ELSE LET r == Round(i, j, k, l)
         IN  Rounds(r.i, r.j, r.k, r.l,
                    IF Rem(r.lm, 64) >= 32 THEN s + t ELSE s,
                    t \div 2, jj + 1)

\* one iteration of the outer loop of start: slot ii and the running integers
FillSlot(st, ii) ==
    LET r == Rounds(st.i, st.j, st.k, st.l, 0, ONE \div 2, 1)
    IN  [rv |-> [st.rv EXCEPT ![ii] = r.s],
         i |-> r.i, j |-> r.j, k |-> r.k, l |-> r.l]

\* the iterations lo..hi of the outer loop of start, in order. The range is
\* halved, and the first half is evaluated (the test on left) before the
\* second is entered, only to keep TLC's evaluation stack shallow.
RECURSIVE Fill(_, _, _)
Fill(st, lo, hi) ==
    IF lo > hi THEN st
    ELSE IF lo = hi THEN FillSlot(st, lo)
    ELSE LET mid  == (lo + hi) \div 2
             left == Fill(st, lo, mid)
         IN  IF left.l \in Int THEN Fill(left, mid + 1, hi) ELSE left

\* the slots the outer loop of start assigns (for ii in 1..=97)
FilledByStart == 1..97

\* (mutant) the range test forgets the lower end
SeedInRangeUpperOnly(seed) == ~(seed > MAX_SEED)

\* the range test that opens initialise
SeedInRange(seed) == ~(seed < 0 \/ seed > MAX_SEED)

\* (mutant) the third sub-seed loses its + 1
DecomposeKFromZero(seed) ==
    LET ij == Div(seed, 30082)
        kl == seed - (30082 * ij)
    IN  [i |-> Rem(Div(ij, 177), 177) + 2,
         j |-> Rem(ij, 177) + 2,
         k |-> Rem(Div(kl, 169), 178),
         l |-> Rem(kl, 169)]

\* the four sub-seeds initialise derives from seed
Decompose(seed) ==
    LET ij == Div(seed, 30082)
        kl == seed - (30082 * ij)
    IN  [i |-> Rem(Div(ij, 177), 177) + 2,
         j |-> Rem(ij, 177) + 2,
         k |-> Rem(Div(kl, 169), 178) + 1,
         l |-> Rem(kl, 169)]

\* slots 1..97 as start fills them for the sub-seeds of the seeds the model
\* offers, evaluated once (start's loop is the same computation every time)
FilledSlots ==
    [q \in {<<Decompose(seed).i, Decompose(seed).j,
              Decompose(seed).k, Decompose(seed).l>> : seed \in InRangeSeeds} |->
        Fill([rv |-> [x \in 0..(LEN_U - 1) |-> 0],
              i |-> q[1], j |-> q[2], k |-> q[3], l |-> q[4]], 1, 97).rv]

\* (mutant) start leaves the two cursors where they were
StartKeepsCursors(self, seed1, seed2, seed3, seed4) ==
    [self EXCEPT
       !.recent_values = Fill([rv |-> self.recent_values, i |-> seed1, j |-> seed2,
                               k |-> seed3, l |-> seed4], 1, 97).rv,
       !.correction         = 362436,
       !.correction_delta   = 7654321,
       !.correction_modulus = 16777213]

Start(self, seed1, seed2, seed3, seed4) ==
    LET q == <<seed1, seed2, seed3, seed4>>
    IN  [self EXCEPT
           !.recent_values =
               IF q \in DOMAIN FilledSlots
               THEN [x \in 0..(LEN_U - 1) |->
                        IF x \in 1..97 THEN FilledSlots[q][x]
                        ELSE self.recent_values[x]]
               ELSE Fill([rv |-> self.recent_values, i |-> seed1, j |-> seed2,
                          k |-> seed3, l |-> seed4], 1, 97).rv,
           !.correction         = 362436,
           !.correction_delta   = 7654321,
           !.correction_modulus = 16777213,
           !.current_index      = 97,
           !.second_index       = 33]

\* the checks of initialise in their order: "ok" or the panic raised
Validate(seed) ==
    IF ~SeedInRange(seed) THEN "panic: seed"
    ELSE LET d == Decompose(seed)
         IN  IF d.i <= 0 \/ d.i > 178 THEN "panic: i"
             ELSE IF d.j <= 0 \/ d.j > 178 THEN "panic: j"
             ELSE IF d.k <= 0 \/ d.k > 178 THEN "panic: k"
             ELSE IF d.l < 0 \/ d.l > 168 THEN "panic: l"
             ELSE IF d.i = 1 /\ d.j = 1 /\ d.k = 1 THEN "panic: 1 1 1"
             ELSE "ok"

\* the arguments initialise passes to start
SubSeeds(seed) ==
    LET d == Decompose(seed) IN <<d.i, d.j, d.k, d.l>>

\* initialise: the generator after the call (untouched when it panics)
Initialise(self, seed) ==
    IF Validate(seed) # "ok" THEN self
    ELSE LET d == Decompose(seed)
         IN  Start(self, d.i, d.j, d.k, d.l)

\* ------------------------------------------------------------ callers
NoCall == [op |-> "none", g |-> 0, seed |-> NoSeed, sub |-> <<>>,
           result |-> "ok", ret |-> NoValue]

Idle == [pc |-> "idle", pixel |-> 0, r |-> NoValue, g |-> NoValue]
Blank == [q \in Pixels |-> <<0, 0, 0>>]
NoOwner == [q \in Pixels |-> <<0, 0>>]

Init ==
    /\ gen = [g \in Gens |-> New]
    /\ seeded = [g \in Gens |-> NoSeed]
    /\ inits = [g \in Gens |-> 0]
    /\ draws = [g \in Gens |-> 0]
    /\ out = [g \in Gens |-> NoValue]
    /\ last = NoCall
    /\ panicked = FALSE
    /\ tls = [k \in Workers |-> [alive |-> FALSE, rng |-> New]]
    /\ time = 0
    /\ frame = 0
    /\ image = Blank
    /\ next = 0
    /\ task = [w \in Workers |-> Idle]
    /\ owner = NoOwner
    /\ taken = [w \in Workers |-> 0]
    /\ drawn = [w \in Workers |-> 0]

\* a caller runs g.initialise(seed)
CallInitialise(g, seed, bound) ==
    /\ ~panicked
    /\ inits[g] < bound
    /\ gen' = [gen EXCEPT ![g] = Initialise(gen[g], seed)]
    /\ last' = [op |-> "initialise", g |-> g, seed |-> seed,
                sub |-> IF Validate(seed) = "ok" THEN SubSeeds(seed) ELSE <<>>,
                result |-> Validate(seed), ret |-> NoValue]
    /\ panicked' = (Validate(seed) # "ok")
    /\ IF Validate(seed) = "ok"
       THEN /\ seeded' = [seeded EXCEPT ![g] = seed]
            /\ inits' = [inits EXCEPT ![g] = @ + 1]
            /\ draws' = [draws EXCEPT ![g] = 0]
            /\ out' = [out EXCEPT ![g] = NoValue]
       ELSE UNCHANGED <<seeded, inits, draws, out>>
    /\ UNCHANGED frameVars

\* a caller runs g.generate()
CallGenerate(g, bound) ==
    /\ ~panicked
    /\ draws[g] < bound
    /\ LET r == Generate(gen[g])
       IN  /\ gen' = [gen EXCEPT ![g] = r.self]
           /\ last' = [op |-> "generate", g |-> g, seed |-> NoSeed,
                       sub |-> <<>>,
                       result |-> IF r.ok THEN "ok" ELSE "panic: index",
                       ret |-> r.ret]
           /\ panicked' = ~r.ok
           /\ IF r.ok
              THEN /\ draws' = [draws EXCEPT ![g] = @ + 1]
                   /\ out' = [out EXCEPT ![g] = r.ret]
              ELSE UNCHANGED <<draws, out>>
           /\ UNCHANGED <<seeded, inits>>
    /\ UNCHANGED frameVars

\* ------------------------------------------------------------ main.rs
\* generate called n times on st.self, st = [ok, self, ret]; the run is
\* halved, and its first half evaluated before the second, to keep the
\* evaluation shallow
RECURSIVE Draws(_, _)
Draws(st, n) ==
    IF n = 0 THEN st
    ELSE IF n = 1 THEN Generate(st.self)
    ELSE LET first == Draws(st, n \div 2)
         IN  IF first.ret \in Int THEN Draws(first, n - (n \div 2)) ELSE first

\* (mutant) one static RNG shared by every thread
SharedSlot(w) == 1

\* thread_local! RNG: every thread has a slot of its own
TlsSlot(w) == w

\* the initialiser of RNG: new, then initialise(12345)
TlsInit == Initialise(New, THREAD_SEED)

\* (mutant) every use of RNG runs the initialiser again
TlsDrawReseeds(slot) ==
    LET r == Generate(TlsInit)
    IN  [ok   |-> r.ok,
         slot |-> [alive |-> TRUE, rng |-> r.self],
         ret  |-> r.ret]

\* RNG.with(|rng| rng.borrow_mut().generate()): the first use on a thread
\* runs the initialiser, whose panic leaves the slot as it was
TlsDraw(slot) ==
    IF ~slot.alive /\ Validate(THREAD_SEED) # "ok"
    THEN [ok |-> FALSE, slot |-> slot, ret |-> NoValue]
    ELSE LET r == Generate(IF slot.alive THEN slot.rng ELSE TlsInit)
         IN  [ok   |-> r.ok,
              slot |-> [alive |-> TRUE, rng |-> r.self],
              ret  |-> r.ret]

\* enumerate_pixels_mut yields the pixels row by row: q = 1 + x + y * width
\* (y = 0 throughout the one row of the model)
XOf(q) == (q - 1) % ModelWidth
YOf(q) == (q - 1) \div ModelWidth

\* time + x / 100.0 + y / 100.0, in hundredths
Phase(t, q) == t + XOf(q) + YOf(q)

\* normalized_value = value.sin() * 0.5 + 0.5 for value = crooks(100, 2.0, 3.0,
\* phase) * 1e3, in units of 1 / NormDen. Every term of the series is at most
\* 1 / cosh(2 pi) in magnitude for phase >= 0, so |value| < 4.3e-4 and the
\* normalised value is within 2.2e-4 of 0.5: NormDen / 2 to this resolution.
NormalizedValue(phase) == NormDen \div 2

\* (mutant) the cast keeps the low eight bits
ToU8Wrapping(x) == x % 256

\* `as u8` on an f64: truncation toward zero, saturating at 0 and 255
ToU8(x) == IF x < 0 THEN 0 ELSE IF x > 255 THEN 255 ELSE x

\* the integer part of (a / NormDen) * (r / ONE) * 255 for 0 <= a <= NormDen
\* and 0 <= r < ONE (r is split in two 12 bit halves to stay within 32 bits)
Scaled(a, r) ==
    LET hi == (a * 255) * (r \div 4096)
        lo == (a * 255) * (r % 4096)
    IN  (hi + (lo \div 4096)) \div (NormDen * 4096)

Abs(x) == IF x < 0 THEN -x ELSE x

\* the integer parts of the three products the colour mapping casts, for the
\* normalised value n (in units of 1 / NormDen) and the factors r, g, b
RawProducts(n, r, g, b) ==
    <<Scaled(n, r),
      Scaled(NormDen - n, g),
      Scaled(((NormDen \div 2) - Abs(n - (NormDen \div 2))) * 2, b)>>

\* image::Rgb([red, green, blue]) for the normalised value n
ColourOf(n, r, g, b) ==
    LET raw == RawProducts(n, r, g, b)
    IN  <<ToU8(raw[1]), ToU8(raw[2]), ToU8(raw[3])>>

\* the Rgb triple of the colour mapping
Colour(phase, r, g, b) == ColourOf(NormalizedValue(phase), r, g, b)

\* the colour mapping of the closure, run on its own for a normalised value
\* and three factors
CallColour(n, r, g, b) ==
    /\ ~panicked
    /\ last' = [op |-> "colour", g |-> 0, seed |-> NoSeed, sub |-> <<>>,
                result |-> "ok", ret |-> NoValue,
                n |-> n, factors |-> <<r, g, b>>, rgb |-> ColourOf(n, r, g, b)]
    /\ UNCHANGED <<gen, seeded, inits, draws, out, panicked>>
    /\ UNCHANGED frameVars

\* the cast `as u8` of the three assignments, run on its own for a product
\* whose integer part is x
CallCast(x) ==
    /\ ~panicked
    /\ last' = [op |-> "cast", g |-> 0, seed |-> NoSeed, sub |-> <<>>,
                result |-> "ok", ret |-> NoValue,
                x |-> x, byte |-> ToU8(x)]
    /\ UNCHANGED <<gen, seeded, inits, draws, out, panicked>>
    /\ UNCHANGED frameVars

\* a worker of the pool takes the next pixel from the bridged iterator and
\* enters the closure (the series value is a function of the phase alone)
TakePixel(w) ==
    /\ ~panicked
    /\ frame < MaxFrames
    /\ task[w].pc = "idle"
    /\ next < NPixels
    /\ next' = next + 1
    /\ task' = [task EXCEPT ![w] = [pc |-> "r", pixel |-> next + 1,
                                    r |-> NoValue, g |-> NoValue]]
    /\ taken' = [taken EXCEPT ![w] = @ + 1]
    /\ owner' = [owner EXCEPT ![next + 1] = <<w, taken[w] + 1>>]
    /\ UNCHANGED <<tls, time, frame, image, drawn, panicked>>
    /\ UNCHANGED genVars

\* random_factor_r
DrawR(w) ==
    /\ ~panicked
    /\ task[w].pc = "r"
    /\ LET d == TlsDraw(tls[TlsSlot(w)])
       IN  /\ panicked' = ~d.ok
           /\ tls' = [tls EXCEPT ![TlsSlot(w)] = d.slot]
           /\ IF d.ok
              THEN /\ task' = [task EXCEPT ![w].pc = "g", ![w].r = d.ret]
                   /\ drawn' = [drawn EXCEPT ![w] = @ + 1]
              ELSE UNCHANGED <<task, drawn>>
    /\ UNCHANGED <<time, frame, image, next, owner, taken>>
    /\ UNCHANGED genVars

\* (mutant) random_factor_g reuses random_factor_r instead of drawing
DrawGNoDraw(w) ==
    /\ ~panicked
    /\ task[w].pc = "g"
    /\ task' = [task EXCEPT ![w].pc = "b", ![w].g = task[w].r]
    /\ UNCHANGED <<tls, drawn, panicked>>
    /\ UNCHANGED <<time, frame, image, next, owner, taken>>
    /\ UNCHANGED genVars

\* random_factor_g
DrawG(w) ==
    /\ ~panicked
    /\ task[w].pc = "g"
    /\ LET d == TlsDraw(tls[TlsSlot(w)])
       IN  /\ panicked' = ~d.ok
           /\ tls' = [tls EXCEPT ![TlsSlot(w)] = d.slot]
           /\ IF d.ok
              THEN /\ task' = [task EXCEPT ![w].pc = "b", ![w].g = d.ret]
                   /\ drawn' = [drawn EXCEPT ![w] = @ + 1]
              ELSE UNCHANGED <<task, drawn>>
    /\ UNCHANGED <<time, frame, image, next, owner, taken>>
    /\ UNCHANGED genVars

\* random_factor_b, the colour mapping and the store into the pixel
DrawB(w) ==
    /\ ~panicked
    /\ task[w].pc = "b"
    /\ LET d == TlsDraw(tls[TlsSlot(w)])
       IN  /\ panicked' = ~d.ok
           /\ tls' = [tls EXCEPT ![TlsSlot(w)] = d.slot]
           /\ IF d.ok
              THEN /\ image' = [image EXCEPT ![task[w].pixel] =
                                  Colour(Phase(time, task[w].pixel),
                                         task[w].r, task[w].g, d.ret)]
                   /\ task' = [task EXCEPT ![w] = Idle]
                   /\ drawn' = [drawn EXCEPT ![w] = @ + 1]
              ELSE UNCHANGED <<image, task, drawn>>
    /\ UNCHANGED <<time, frame, next, owner, taken>>
    /\ UNCHANGED genVars

\* for_each has returned
FrameDone == next = NPixels /\ \A w \in Workers : task[w].pc = "idle"

\* the rest of the loop body: the image is shown, time advances, and the
\* next iteration starts from a new, zeroed ImageBuffer
EndFrame ==
    /\ ~panicked
    /\ frame < MaxFrames
    /\ FrameDone
    /\ time' = time + TIME_STEP
    /\ frame' = frame + 1
    /\ image' = Blank
    /\ next' = 0
    /\ owner' = NoOwner
    /\ taken' = [w \in Workers |-> 0]
    /\ UNCHANGED <<tls, task, drawn, panicked>>
    /\ UNCHANGED genVars

Next ==
    \/ \E w \in Workers : TakePixel(w)
    \/ \E w \in Workers : DrawR(w)
    \/ \E w \in Workers : DrawG(w)
    \/ \E w \in Workers : DrawB(w)
    \/ EndFrame

Spec == Init /\ [][Next]_vars

\* ------------------------------------------------------------ the series
\* An f64 is not computed here: the value crooks_fluctuation_theorem returns
\* is carried as the sequence of the contributions added to the initial
\* sum = 0.0, in the order of the additions; the empty sequence is 0.0 itself.
\* A contribution (coefficient * term).powf(exponent), term = sin(2 pi i + time)
\* / cosh(2 pi i + time), is carried as the record of what it is computed from.
Contribution(i, coefficient, exponent, tm) ==
    [i |-> i, coefficient |-> coefficient, exponent |-> exponent, time |-> tm]

\* (mutant) the loop runs over 1..terms, its upper end excluded
InTermRangeExclusive(i, terms) == i < terms

\* the loop test of `for i in 1..=terms`
InTermRange(i, terms) == i <= terms

\* the iterations lo..hi of the loop, in order, each entered only if the loop
\* test lets it; sum is the additions made so far. The range is halved, and
\* its first half evaluated before the second, to keep the evaluation shallow.
RECURSIVE SeriesLoop(_, _, _, _, _, _, _)
SeriesLoop(lo, hi, terms, coefficient, exponent, tm, sum) ==
    IF lo > hi THEN sum
    ELSE IF lo = hi
    THEN IF InTermRange(lo, terms)
         THEN Append(sum, Contribution(lo, coefficient, exponent, tm))
         ELSE sum
    ELSE LET mid  == (lo + hi) \div 2
             left == SeriesLoop(lo, mid, terms, coefficient, exponent, tm, sum)
         IN  IF Len(left) >= 0
             THEN SeriesLoop(mid + 1, hi, terms, coefficient, exponent, tm, left)
             ELSE left

\* crooks_fluctuation_theorem: sum = 0.0, the loop from i = 1 until the test
\* fails (at terms + 1 at the latest), sum
crooks_fluctuation_theorem(terms, coefficient, exponent, tm) ==
    SeriesLoop(1, terms + 1, terms, coefficient, exponent, tm, <<>>)

\* a caller evaluates the series: floating-point arithmetic never panics, and
\* the function reads and writes nothing but its arguments and locals
CallEvaluate(terms, coefficient, exponent, tm) ==
    /\ ~panicked
    /\ last' = [op |-> "evaluate", g |-> 0, seed |-> NoSeed, sub |-> <<>>,
                result |-> "ok", ret |-> NoValue,
                terms |-> terms, coefficient |-> coefficient,
                exponent |-> exponent, time |-> tm,
                sum |-> crooks_fluctuation_theorem(terms, coefficient, exponent, tm)]
    /\ UNCHANGED <<gen, seeded, inits, draws, out, panicked>>
    /\ UNCHANGED frameVars

\* one generator, driven through long runs of draws and re-initialisation
NextGen ==
    \/ \E seed \in InRangeSeeds \cup BadSeeds : CallInitialise(1, seed, MaxInits)
    \/ CallGenerate(1, MaxDraws)

SpecGen == Init /\ [][NextGen]_vars

\* two generators constructed independently, their calls interleaved
NextPair ==
    \E g \in Gens :
        \/ \E seed \in PairSeeds : CallInitialise(g, seed, MaxInits)
        \/ CallGenerate(g, MaxPairDraws)

SpecPair == Init /\ [][NextPair]_vars

\* initialise alone, on a fresh generator, over seeds across the range
NextSeed ==
    \E seed \in SampleSeeds \cup BadSeeds : CallInitialise(1, seed, 1)

SpecSeed == Init /\ [][NextSeed]_vars

\* the series alone, called again and again with arguments around the
\* program's (terms = 100, coefficient = 2.0, exponent = 3.0, time >= 0)
TermCounts == (0..MaxTerms) \cup {TERMS}
Coefficients == {2, 3}
Exponents == {3, 1}
Times == {0, 1, TIME_STEP, 2 * TIME_STEP, 3 * TIME_STEP}

NextEval ==
    \E terms \in TermCounts, coefficient \in Coefficients,
       exponent \in Exponents, tm \in Times :
        CallEvaluate(terms, coefficient, exponent, tm)

SpecEval == Init /\ [][NextEval]_vars

\* the colour mapping alone: normalised values across [0, 1], factors across
\* [0, 1) up to its last value below 1, and the cast on products within and
\* beyond the byte range
NormSamples == {0, 1, NormDen \div 4, NormDen \div 2, (NormDen \div 2) + 1, NormDen - 1, NormDen}
JitterSamples == {0, 1, ONE \div 2, ONE - 4096, ONE - 1}
CastSamples == {0 - 300, 0 - 1, 0, 1, 254, 255, 256, 257, 509, 510, 511, 512, 1000}

NextColour ==
    \/ \E n \in NormSamples, r \in JitterSamples, g \in JitterSamples,
          b \in JitterSamples : CallColour(n, r, g, b)
    \/ \E x \in CastSamples : CallCast(x)

SpecColour == Init /\ [][NextColour]_vars

\* ------------------------------------------------------------ reference
\* The reference Marsaglia universal generator: the lag buffer is the 97
\* slots 1..97 that start fills, and each cursor cycles over those slots
\* alone (decrement, and 0 becomes 97).
RefStepIndex(idx) == IF idx - 1 = 0 THEN 97 ELSE idx - 1

RefGenerate(self) ==
    LET d  == self.recent_values[self.current_index]
                - self.recent_values[self.second_index]
        nv == IF d < 0 THEN d + ONE ELSE d
        c1 == self.correction - self.correction_delta
        c2 == IF c1 < 0 THEN c1 + self.correction_modulus ELSE c1
        v  == nv - c2
    IN  [self |-> [self EXCEPT
                     !.recent_values[self.current_index] = nv,
                     !.current_index = RefStepIndex(self.current_index),
                     !.second_index  = RefStepIndex(self.second_index),
                     !.correction    = c2],
         ret  |-> IF v < 0 THEN v + ONE ELSE v]

\* the reference after n draws from st = [self, ret]; the run is halved, and
\* its first half evaluated before the second, to keep the evaluation shallow
RECURSIVE RefDraws(_, _)
RefDraws(st, n) ==
    IF n = 0 THEN st
    ELSE IF n = 1 THEN RefGenerate(st.self)
    ELSE LET first == RefDraws(st, n \div 2)
         IN  IF first.ret \in Int THEN RefDraws(first, n - (n \div 2)) ELSE first

\* the reference started with the sub-seeds of THREAD_SEED, before any draw
RefStarted ==
    [self |-> [recent_values      |-> [x \in 1..97 |-> FilledSlots[SubSeeds(THREAD_SEED)][x]],
               correction         |-> 362436,
               correction_delta   |-> 7654321,
               correction_modulus |-> 16777213,
               current_index      |-> 97,
               second_index       |-> 33],
     ret  |-> NoValue]

\* ------------------------------------------------------------ claims
\* C1: once a generator was initialised with a seed in [0, 900000000], every
\* value generate returns, after any number of earlier draws, is in [0, 1).
C1_GenerateInUnitInterval ==
    \A g \in Gens :
        (seeded[g] # NoSeed /\ draws[g] > 0) => (0 <= out[g] /\ out[g] < ONE)

\* C1 witness: a generator seeded with the largest valid seed has drawn often
\* enough for both cursors to have wrapped, and its last value is in range.
C1_Witness ==
    /\ seeded[1] = MAX_SEED
    /\ draws[1] >= 99
    /\ 0 <= out[1] /\ out[1] < ONE

\* C2: after initialise(12345) on a new generator, each of the first 97 values
\* of generate equals the reference generator's value for the same draw.
C2_MatchesReference ==
    (seeded[1] = THREAD_SEED /\ inits[1] = 1 /\ draws[1] \in 1..97)
        => out[1] = RefDraws(RefStarted, draws[1]).ret

\* C3: two generators, each constructed and initialised once with the same
\* seed, agree after equally many draws: same state, same value returned.
C3_SameSeedSameSequence ==
    \A g, h \in Gens :
        (inits[g] = 1 /\ inits[h] = 1 /\ seeded[g] = seeded[h] /\ draws[g] = draws[h])
            => (gen[g] = gen[h] /\ out[g] = out[h])

\* C3 witness: both generators hold the same seed and have drawn the same,
\* positive, number of values.
C3_Witness ==
    /\ inits[1] = 1 /\ inits[2] = 1
    /\ seeded[1] = THREAD_SEED /\ seeded[2] = THREAD_SEED
    /\ draws[1] = MaxPairDraws /\ draws[2] = MaxPairDraws
    /\ out[1] = out[2]

\* C4: initialise with a seed in [0, 900000000] succeeds and hands start
\* i = ((ij/177) mod 177) + 2, j = (ij mod 177) + 2, k = ((kl/169) mod 178) + 1,
\* l = kl mod 169 for ij = seed / 30082, kl = seed - 30082 ij, with i, j, k in
\* [1,178] and l in [0,168].
C4_DecompositionOfValidSeed ==
    (last.op = "initialise" /\ 0 <= last.seed /\ last.seed <= 900000000) =>
        LET ij == last.seed \div 30082
            kl == last.seed - 30082 * ij
            i  == ((ij \div 177) % 177) + 2
            j  == (ij % 177) + 2
            k  == ((kl \div 169) % 178) + 1
            l  == kl % 169
        IN  /\ last.result = "ok"
            /\ last.sub = <<i, j, k, l>>
            /\ i \in 1..178 /\ j \in 1..178 /\ k \in 1..178 /\ l \in 0..168

\* C4 witness: initialise(900000000) has succeeded and called start(171, 7, 40, 133).
C4_Witness ==
    /\ last.op = "initialise" /\ last.seed = 900000000
    /\ last.result = "ok" /\ last.sub = <<171, 7, 40, 133>>
    /\ seeded[1] = 900000000

\* C5: a call of initialise with a seed below 0 or above 900000000 ends in the
\* out-of-range panic and leaves the generator exactly as it was.
C5_BadSeedLeavesGenerator ==
    [][(~panicked /\ last'.op = "initialise"
          /\ (last'.seed < 0 \/ last'.seed > 900000000))
        => (last'.result = "panic: seed" /\ panicked' /\ gen' = gen
              /\ seeded' = seeded /\ draws' = draws)]_vars

\* C5 witness: a generator that was seeded and has drawn values was handed an
\* out-of-range seed, and the call panicked.
C5_Witness ==
    /\ last.op = "initialise" /\ last.seed = -1 /\ last.result = "panic: seed"
    /\ seeded[1] = THREAD_SEED /\ draws[1] > 0
    /\ gen[1].current_index # 97

\* C6: an invalid seed comes back from initialise as a SeedOutOfRange error
\* value, and the caller goes on running.
C6_InvalidSeedIsRecoverable ==
    (last.op = "initialise" /\ (last.seed < 0 \/ last.seed > 900000000))
        => (last.result = "SeedOutOfRange" /\ ~panicked)

\* C7: in every reachable state both cursors index the buffer, no generate
\* call fails, and a failed call is a call of initialise.
C7_GenerateNeverFails ==
    /\ \A g \in Gens :
          /\ gen[g].current_index \in DOMAIN gen[g].recent_values
          /\ gen[g].second_index \in DOMAIN gen[g].recent_values
    /\ last.op = "generate" => last.result = "ok"
    /\ panicked => last.op = "initialise"

\* C7 witness: generate has succeeded after both cursors wrapped past slot 0.
C7_Witness ==
    /\ last.op = "generate" /\ last.result = "ok"
    /\ seeded[1] # NoSeed /\ draws[1] >= 99

\* the generator a thread's first draw finds: new, initialise(12345), no draw
FreshTls == [ok |-> TRUE, self |-> TlsInit, ret |-> NoValue]

\* the n-th value of a generator seeded as the thread-local one is
FreshOutput(n) == Draws(FreshTls, n).ret

\* the colour of pixel q at time t when it is the n-th pixel of a worker
\* whose generator was fresh when the frame began
FromScratchPixel(t, q, n) ==
    Colour(Phase(t, q), FreshOutput(3 * n - 2), FreshOutput(3 * n - 1), FreshOutput(3 * n))

\* pixel q of this frame has been stored
Written(q) == owner[q] # <<0, 0>> /\ \A w \in Workers : task[w].pixel # q

\* C8: the finished image of a frame is the same under every assignment of
\* pixels to workers: in the first frame it is the image of the schedule in
\* which one worker takes every pixel in turn.
C8_ImageIndependentOfSchedule ==
    (frame = 0 /\ FrameDone) => image = [q \in Pixels |-> FromScratchPixel(time, q, q)]

\* C8, the other schedule: the first frame has finished with the image of the
\* one-worker schedule (stated negated: a state TLC reaches refutes it)
C8_OneWorkerScheduleUnreached ==
    ~(frame = 0 /\ FrameDone /\ taken[1] = NPixels
        /\ image = [q \in Pixels |-> FromScratchPixel(time, q, q)])

\* C9: a worker's generator is created by its own first draw and is, after
\* its k-th draw, the freshly seeded generator advanced k times, whatever the
\* other workers have drawn in between.
C9_WorkerStateDependsOnOwnDraws ==
    \A w \in Workers :
        IF drawn[w] = 0 THEN ~tls[w].alive
        ELSE tls[w].alive /\ tls[w].rng = Draws(FreshTls, drawn[w]).self

\* C9 witness: in the second frame two workers are in the middle of pixels,
\* with different numbers of draws made, and their generators differ.
C9_Witness ==
    /\ frame = 1
    /\ drawn[1] = 3 * NPixels + 2 /\ drawn[2] = 1
    /\ task[1].pc = "b" /\ task[2].pc = "g"
    /\ tls[1].rng # tls[2].rng

\* C10: a frame carries nothing over from the frames before it: every pixel
\* stored is the pixel that computing the frame from scratch, for the same
\* time and the same assignment of pixels to workers, stores.
C10_FrameFromScratch ==
    \A q \in Pixels :
        Written(q) => image[q] = FromScratchPixel(time, q, owner[q][2])

\* C11: crooks_fluctuation_theorem returns the sum of exactly `terms`
\* contributions, one for each i = 1..terms in turn and no other (the empty
\* sum, 0, for terms = 0); the call does not fail, and what it returns is
\* fixed by its arguments, whatever was called before.
C11_SumOfTermsContributions ==
    last.op = "evaluate" =>
        /\ Len(last.sum) = last.terms
        /\ \A n \in 1..last.terms :
              last.sum[n] = [i |-> n, coefficient |-> last.coefficient,
                             exponent |-> last.exponent, time |-> last.time]
        /\ (last.terms = 0 => last.sum = <<>>)
        /\ last.result = "ok" /\ ~panicked
        /\ gen = [g \in Gens |-> New] /\ \A w \in Workers : ~tls[w].alive

\* C11 witness: the series was evaluated as main does, with 100 terms, and
\* its last addition was the contribution of i = 100.
C11_Witness ==
    /\ last.op = "evaluate" /\ last.terms = 100 /\ last.coefficient = 2
    /\ last.exponent = 3
    /\ Len(last.sum) = 100 /\ last.sum[100].i = 100 /\ last.sum[1].i = 1

\* C12: for a normalised value in [0, 1] and factors in [0, 1) each channel
\* byte is in [0, 255] and is the integer part of its product n r 255,
\* (1 - n) g 255, (0.5 - |n - 0.5|) 2 b 255; and the cast takes a product
\* below 0 to 0 and one above 255 to 255, never to its value modulo 256.
C12_ChannelBytesClamped ==
    /\ last.op = "colour" =>
          LET half == NormDen \div 2
              a == <<last.n,
                     NormDen - last.n,
                     2 * (IF last.n >= half THEN half - (last.n - half) ELSE last.n)>>
          IN  \A c \in 1..3 :
                /\ last.rgb[c] \in 0..255
                /\ LET p == Scaled(a[c], last.factors[c])
                   IN  last.rgb[c] = IF p < 0 THEN 0 ELSE IF p > 255 THEN 255 ELSE p
    /\ last.op = "cast" =>
          /\ last.byte \in 0..255
          /\ (last.x \in 0..255 => last.byte = last.x)
          /\ (last.x < 0 => last.byte = 0)
          /\ (last.x > 255 => last.byte = 255)

\* C12 witness: the largest normalised value and the largest factor give a
\* red byte of 254, a green byte of 0 and a blue byte of 0.
C12_Witness ==
    /\ last.op = "colour" /\ last.n = NormDen
    /\ last.factors = <<ONE - 1, ONE - 1, ONE - 1>>
    /\ last.rgb = <<254, 0, 0>>

\* C13: the buffer the cursors run over is the 97 slots start fills: once
\* start has run, both cursors point at slots start filled, after any number
\* of draws, and after exactly 97 draws each is back at its starting slot.
C13_CursorsWithinFilledSlots ==
    seeded[1] # NoSeed =>
        /\ Cardinality(FilledByStart) = 97
        /\ gen[1].current_index \in FilledByStart
        /\ gen[1].second_index \in FilledByStart
        /\ (draws[1] = 97 => gen[1].current_index = 97 /\ gen[1].second_index = 33)

\* C14: after start and any number of draws the cursors are 64 positions
\* apart around a circle of 97 slots.
C14_LagDistance64 ==
    seeded[1] # NoSeed =>
        (gen[1].current_index - gen[1].second_index) % 97 = 64

\* C15: once initialise has succeeded, after any number of draws every entry
\* of the buffer is a value in [0, 1) (a whole number of 2^-24 units),
\* correction is in [0, correction_modulus), correction_delta is
\* 7654321 / 16777216 and correction_modulus is 16777213 / 16777216.
C15_BufferAndCorrectionInRange ==
    seeded[1] # NoSeed =>
        /\ \A x \in DOMAIN gen[1].recent_values :
              gen[1].recent_values[x] \in Int
                /\ 0 <= gen[1].recent_values[x] /\ gen[1].recent_values[x] < ONE
        /\ 0 <= gen[1].correction
        /\ gen[1].correction < gen[1].correction_modulus
        /\ gen[1].correction_delta = 7654321
        /\ gen[1].correction_modulus = 16777213
        /\ ONE = 16777216

\* C15 witness: after a full turn of both cursors every entry, entry 0 too,
\* has been written by generate, and correction has moved off its starting
\* value.
C15_Witness ==
    /\ seeded[1] = MAX_SEED /\ draws[1] = MaxDraws
    /\ gen[1].recent_values[0] > 0
    /\ gen[1].correction # 362436

\* C16: a generate call changes the entry at the current cursor (as it was
\* before the call), steps each cursor down by one with wrap-around, and
\* changes correction; every other entry, correction_delta and
\* correction_modulus stay as they were.
C16_GenerateFrame ==
    [][(last'.op = "generate" /\ last'.result = "ok") =>
        /\ \A x \in DOMAIN gen[1].recent_values :
              x # gen[1].current_index
                => gen'[1].recent_values[x] = gen[1].recent_values[x]
        /\ DOMAIN gen'[1].recent_values = DOMAIN gen[1].recent_values
        /\ gen'[1].current_index =
              IF gen[1].current_index = 0 THEN LEN_U - 1 ELSE gen[1].current_index - 1
        /\ gen'[1].second_index =
              IF gen[1].second_index = 0 THEN LEN_U - 1 ELSE gen[1].second_index - 1
        /\ gen'[1].correction_delta = gen[1].correction_delta
        /\ gen'[1].correction_modulus = gen[1].correction_modulus
        /\ gen'[2] = gen[2]]_vars

\* C16 witness: a generate call has just wrapped the second cursor from 0 to
\* 97 and written the entry at the first.
C16_Witness ==
    /\ last.op = "generate" /\ last.result = "ok"
    /\ seeded[1] = THREAD_SEED /\ draws[1] = 34
    /\ gen[1].second_index = 97 /\ gen[1].current_index = 63
    /\ gen[1].recent_values[64] # FilledSlots[SubSeeds(THREAD_SEED)][64]

\* draws the closure has made for the pixel worker w is in
DrawsInPixel(w) ==
    CASE task[w].pc = "g" -> 1
      [] task[w].pc = "b" -> 2
      [] OTHER -> 0

\* pixels worker w has finished in this frame
FinishedInFrame(w) == IF task[w].pc = "idle" THEN taken[w] ELSE taken[w] - 1

RECURSIVE SumOver(_, _)
SumOver(f, S) ==
    IF S = {} THEN 0
    ELSE LET x == CHOOSE y \in S : TRUE IN f[x] + SumOver(f, S \ {x})

\* C17: a worker draws three values for each pixel, one after the other, and
\* holds one pixel at a time: its draws are three for every pixel it has
\* finished plus those made for the pixel it is in (in the first frame, counted
\* per worker; over all frames, counted over the workers together and, per
\* worker, modulo 3).
C17_ThreeDrawsPerPixel ==
    /\ \A w \in Workers :
          /\ drawn[w] % 3 = DrawsInPixel(w)
          /\ (frame = 0 => drawn[w] = 3 * FinishedInFrame(w) + DrawsInPixel(w))
          /\ (task[w].pc = "g" => task[w].r # NoValue)
          /\ (task[w].pc = "b" => task[w].r # NoValue /\ task[w].g # NoValue)
    /\ SumOver(drawn, Workers) =
          3 * (frame * NPixels + SumOver([w \in Workers |-> FinishedInFrame(w)], Workers))
            + SumOver([w \in Workers |-> DrawsInPixel(w)], Workers)

\* C17 witness: in the first frame worker 1 has finished every pixel but the
\* last, which worker 2 is in the middle of.
C17_Witness ==
    /\ frame = 0
    /\ taken[1] = NPixels - 1 /\ task[1].pc = "idle" /\ drawn[1] = 3 * (NPixels - 1)
    /\ taken[2] = 1 /\ task[2].pc = "b" /\ drawn[2] = 2

\* the k-th value of a new generator after initialise(12345)
KthOfSeed12345(k) ==
    Draws([ok |-> TRUE, self |-> Initialise(New, 12345), ret |-> NoValue], k).ret

\* C18: a worker's generator exists from that worker's first draw on and is
\* seeded with 12345, once: the k-th value a worker draws is the k-th value
\* of a generator seeded with 12345, on every worker alike, and no value is
\* drawn from an unseeded generator.
C18_EveryWorkerSameSequence ==
    /\ \A w \in Workers :
          /\ tls[w].alive <=> drawn[w] > 0
          /\ (~tls[w].alive => tls[w].rng = New)
          /\ (tls[w].alive => tls[w].rng.correction_modulus = 16777213)
          /\ (task[w].pc = "g" => task[w].r = KthOfSeed12345(drawn[w]))
          /\ (task[w].pc = "b" =>
                /\ task[w].r = KthOfSeed12345(drawn[w] - 1)
                /\ task[w].g = KthOfSeed12345(drawn[w]))
    /\ \A w, v \in Workers :
          (task[w].pc = task[v].pc /\ drawn[w] = drawn[v])
            => (task[w].r = task[v].r /\ task[w].g = task[v].g)

\* C18 witness: two workers have each drawn their first two values, and
\* hold the same two values.
C18_Witness ==
    /\ task[1].pc = "b" /\ task[2].pc = "b"
    /\ drawn[1] = 2 /\ drawn[2] = 2
    /\ task[1].pixel # task[2].pixel
    /\ task[1].r = task[2].r /\ task[1].g = task[2].g /\ task[1].r # task[1].g

\* the largest i32
I32_MAX == 2147483647

\* a round entered with i, j, k, l: they are in their bands, and so is every
\* product the round forms
RoundInRange(i, j, k, l) ==
    LET r == Round(i, j, k, l)
    IN  /\ i \in 1..178 /\ j \in 1..178 /\ k \in 1..178 /\ l \in 0..168
        /\ r.k \in 1..178 /\ r.l \in 0..168
        /\ 0 <= r.ij /\ r.ij <= I32_MAX
        /\ 0 <= r.ijk /\ r.ijk <= I32_MAX
        /\ 0 <= r.l53 /\ r.l53 <= I32_MAX
        /\ 0 <= r.lm /\ r.lm <= I32_MAX

\* the rounds jj..24 of one slot, watched: the running integers after them
\* and whether every round was in range
RECURSIVE RoundsWatched(_, _, _, _, _)
RoundsWatched(i, j, k, l, jj) ==
    IF jj > 24 THEN [i |-> i, j |-> j, k |-> k, l |-> l, ok |-> TRUE]
    ELSE IF ~RoundInRange(i, j, k, l)
    THEN [i |-> i, j |-> j, k |-> k, l |-> l, ok |-> FALSE]
    ELSE LET r == Round(i, j, k, l)
         IN  RoundsWatched(r.i, r.j, r.k, r.l, jj + 1)

\* the slots lo..hi of start, watched (halved as Fill is)
RECURSIVE SlotsWatched(_, _, _)
SlotsWatched(st, lo, hi) ==
    IF lo > hi \/ ~st.ok THEN st
    ELSE IF lo = hi THEN RoundsWatched(st.i, st.j, st.k, st.l, 1)
    ELSE LET mid  == (lo + hi) \div 2
             left == SlotsWatched(st, lo, mid)
         IN  IF left.ok THEN SlotsWatched(left, mid + 1, hi) ELSE left

\* all 97 x 24 rounds of start(sub[1], sub[2], sub[3], sub[4]) are in range
StartInRange(sub) ==
    SlotsWatched([i |-> sub[1], j |-> sub[2], k |-> sub[3], l |-> sub[4],
                  ok |-> TRUE], 1, 97).ok

\* a round entered in range leaves in range, whatever the values: i j mod 179
\* is in 1..178 for all i, j in 1..178 (rounds with k = 1, where m is that
\* residue), hence so is m for all i, j, k (rounds with i = 1, where i j is
\* any such residue), and l stays in 0..168
RoundsClosed ==
    /\ \A i \in 1..178, j \in 1..178 : RoundInRange(i, j, 1, 0)
    /\ \A j \in 1..178, k \in 1..178 : RoundInRange(1, j, k, 168)
    /\ \A l \in 0..168 : RoundInRange(178, 178, 178, l)

\* C19: when initialise has accepted a seed, through all 97 x 24 rounds of
\* start i, j and k are in [1, 178] (m is never 0) and l in [0, 168], and no
\* product (i j, (i j mod 179) k, 53 l + 1, l m, 30082 ij) is negative or
\* beyond the largest i32; and the rounds keep these bands for every value
\* in them.
C19_StartStaysInRange ==
    /\ (last.op = "initialise" /\ last.result = "ok") =>
          /\ 0 <= 30082 * Div(last.seed, 30082)
          /\ 30082 * Div(last.seed, 30082) <= last.seed
          /\ last.seed <= I32_MAX
          /\ StartInRange(last.sub)
    /\ RoundsClosed

\* C19 witness: start has run for seed 5324513, whose sub-seeds are the
\* largest j, k and l, and filled the buffer.
C19_Witness ==
    /\ last.op = "initialise" /\ last.result = "ok" /\ last.seed = 5324513
    /\ last.sub = <<2, 178, 178, 168>>
    /\ gen[1].current_index = 97 /\ gen[1].recent_values[97] > 0

====
